---- MODULE Spec2Model ----
(***************************************************************************)
(* bloomvsmap: a command that streams event records from an HTTP source,   *)
(* tracks the Ids of "PushEvent" records in an exact map (first pass) and  *)
(* in two Bloom filters (second pass), encodes and saves the three         *)
(* structures and tallies the map's keys against both filters.             *)
(*                                                                         *)
(* Library behaviour the program relies on is modelled where the program   *)
(* calls it: flag (no Parse call), encoding/json's Decoder (More, Decode   *)
(* and its sticky syntax error), bits-and-blooms/bloom (Add, Test,         *)
(* location) and os/gzip in Save.                                          *)
(***************************************************************************)
EXTENDS Integers, Sequences, FiniteSets, TLC

VARIABLES
  argE,          \* what the operator typed for -e: "unset", "true", "false"
  cfg,           \* Config{TracingEnabled}
  traceFile,     \* TRUE once os.Create(cfg.TraceFile) succeeded
  tracing,       \* TRUE once trace.Start succeeded
  pc,            \* main's position
  exit,          \* "running", "ok" (main returned), "fatal" (log.Fatal*)
  fatalMsg,      \* the message of the log.Fatal* call that ended the run
  reader,        \* which reader function is running
  proc,          \* the callback the reader was given
  rpc,           \* the reader's position
  body,          \* the HTTP response body handed to json.NewDecoder
  scanp,         \* the decoder's position in the stream (next element)
  decErr,        \* the decoder's sticky error (dec.err)
  dataModel,     \* the reader's local slice of decoded records
  procCalls,     \* the records passed to proc, in call order
  pushEventMap,  \* map[string]bool
  blomfil,       \* bloom.NewWithEstimates(12000, 0.1)
  halfblomfil,   \* bloom.NewWithEstimates(6000, 0.1)
  blomBytes, halfblomBytes, mapBytes,  \* main's encoded buffers
  files,         \* the three output files
  tally,         \* the four counters Confirm logs
  recsA, recsB,  \* two orderings of one multiset of records
  runA, runB     \* the structures after processing a prefix of each

cmdVars == <<argE, cfg, traceFile, tracing>>
ctlVars == <<pc, exit, fatalMsg>>
rdVars  == <<reader, proc, rpc, body, scanp, decErr, dataModel, procCalls>>
setVars == <<pushEventMap, blomfil, halfblomfil>>
outVars == <<blomBytes, halfblomBytes, mapBytes, files, tally>>
ordVars == <<recsA, recsB, runA, runB>>
vars == <<cmdVars, ctlVars, rdVars, setVars, outVars, ordVars>>

(***************************************************************************)
(* Bounds                                                                  *)
(*   MaxId      identifiers are 1..MaxId                                   *)
(*   MaxLen     elements in a response body                                *)
(*   MaxRecs    records in the sequences that are reordered                *)
(*   FullBits, HalfBits, NumHashes                                         *)
(*              the bit-array sizes and the hash count that                *)
(*              NewWithEstimates(12000, 0.1) and (6000, 0.1) derive,       *)
(*              scaled down so that filters fill up and collide            *)
(***************************************************************************)
MaxId == 2
MaxLen == 2
MaxRecs == 3
FullBits == 7
HalfBits == 3
NumHashes == 2

Ids == 1..MaxId
Types == {"PushEvent", "WatchEvent", "ForkEvent"}
None == "none"

\* The two fields of Model the program reads.
Model == [Id : Ids, Type : Types]

(***************************************************************************)
(* The response body, as the elements of the top-level JSON array:         *)
(*   "ok"        an object that decodes into a Model;                      *)
(*   "mistyped"  valid JSON whose unmarshal fails (UnmarshalTypeError);    *)
(*   "malformed" text that is not valid JSON (SyntaxError, or the body     *)
(*               ending inside the value).                                 *)
(* head is the first token of the body: "[" or something Token rejects.    *)
(***************************************************************************)
Elems ==
  [kind : {"ok"}, Id : Ids, Type : Types]
    \cup [kind : {"mistyped", "malformed"}, Id : {1}, Type : {"PushEvent"}]

SeqsUpTo(S, n) == UNION {[1..k -> S] : k \in 0..n}

Bodies ==
  {[head |-> "[", elems |-> s] : s \in SeqsUpTo(Elems, MaxLen)}
    \cup {[head |-> "junk", elems |-> <<>>]}

NoBody == [head |-> None, elems |-> <<>>]

(***************************************************************************)
(* bits-and-blooms/bloom                                                   *)
(***************************************************************************)
\* baseHashes: four 64-bit hashes of the data (murmur3 in the library; a
\* fixed arithmetic stand-in here, deterministic in the data as there).
baseHashes(id) == <<3 * id, 5 * id + 1, 7 * id + 2, 11 * id + 3>>

\* location(h, i) = h[i%2] + i*h[2+(((i+(i%2))%4)/2)]  (uint64 in the
\* library; the stand-in hashes keep every value far below 2^64, so the
\* wrap-around never acts). h is 0-indexed there, 1-indexed here.
location(h, i) ==
  h[(i % 2) + 1] + i * h[2 + (((i + (i % 2)) % 4) \div 2) + 1]

\* NewWithEstimates: m bits, k hash functions, all bits clear. adds is the
\* history of the data Add was called with; the filter itself keeps b only.
NewFilter(m, k) == [m |-> m, k |-> k, b |-> {}, adds |-> {}]

Locations(f, id) == {location(baseHashes(id), i) % f.m : i \in 0..(f.k - 1)}

\* A plausible slip: the bit set is replaced instead of extended.
AddStringOverwrite(f, id) ==
  [f EXCEPT !.b = Locations(f, id), !.adds = @ \cup {id}]

\* f.AddString(id): set the k locations of id
AddString(f, id) ==
  [f EXCEPT !.b = @ \cup Locations(f, id), !.adds = @ \cup {id}]

\* f.TestString(id): all k locations of id are set
TestString(f, id) == Locations(f, id) \subseteq f.b

\* f.GobEncode(): m, k, then the bit array
GobEncode(f) ==
  <<f.m, f.k>> \o [i \in 1..f.m |-> IF (i - 1) \in f.b THEN 1 ELSE 0]

(***************************************************************************)
(* The two callbacks                                                       *)
(***************************************************************************)
\* A plausible slip: the map is reassigned instead of extended.
MapPutFresh(m, id) == [k \in {id} |-> TRUE]

\* pushEventMap[md.Id] = true
MapPut(m, id) == [k \in (DOMAIN m) \cup {id} |-> TRUE]

\* A plausible slip: the type test is dropped.
ProcessChunkUsingMapAnyType(m, md) == MapPut(m, md.Id)

ProcessChunkUsingMap(m, md) ==
  IF md.Type = "PushEvent" THEN MapPut(m, md.Id) ELSE m

\* fs = <<blomfil, halfblomfil>>
ProcessChunkUsingBloom(fs, md) ==
  IF md.Type = "PushEvent"
    THEN <<AddString(fs[1], md.Id), AddString(fs[2], md.Id)>>
    ELSE fs

EmptyMap == [k \in {} |-> TRUE]

(***************************************************************************)
(* encoding/json Decoder, at the granularity of array elements             *)
(***************************************************************************)
\* dec.More(): the next non-space byte exists and is not ']'. It does not
\* look at dec.err.
More(elems, p) == p <= Len(elems)

\* dec.Decode(&m) on a fresh m: the decoder's new position and sticky error,
\* the returned error and the decoded record.
\*   dec.err set            -> returns dec.err, nothing consumed
\*   syntax error in value  -> dec.err set, nothing consumed
\*   unmarshal type error   -> value consumed, error returned, not sticky
Decode(elems, p, sticky) ==
  IF sticky
    THEN [scanp |-> p, decErr |-> TRUE, err |-> TRUE, m |-> None]
    ELSE CASE elems[p].kind = "ok" ->
                [scanp |-> p + 1, decErr |-> FALSE, err |-> FALSE,
                 m |-> [Id |-> elems[p].Id, Type |-> elems[p].Type]]
           [] elems[p].kind = "mistyped" ->
                [scanp |-> p + 1, decErr |-> FALSE, err |-> TRUE, m |-> None]
           [] elems[p].kind = "malformed" ->
                [scanp |-> p, decErr |-> TRUE, err |-> TRUE, m |-> None]

(***************************************************************************)
(* Save and Confirm                                                        *)
(***************************************************************************)
FileNames == {"mapBytes.gob", "bloomBytes.gob", "halfbloomBytes.gob"}
NoFile == [state |-> "untouched", data |-> <<>>]

\* Save(filename, data): what is left on disk and the error returned.
\* os.Create failing returns its error; fz.Write's error is dropped and the
\* err returned is os.Create's, nil.
Save(data, outcome) ==
  CASE outcome = "createFailed" ->
         [file |-> [state |-> "createFailed", data |-> <<>>], err |-> TRUE]
    [] outcome = "writeFailed" ->
         [file |-> [state |-> "truncated", data |-> <<>>], err |-> FALSE]
    [] outcome = "ok" ->
         [file |-> [state |-> "written", data |-> <<"gzip">> \o data],
          err |-> FALSE]

NoTally == [hitCount |-> -1, missCount |-> -1, halfCoount |-> -1, mhalfCount |-> -1]

RECURSIVE ConfirmLoop(_, _, _, _)
ConfirmLoop(keys, full, half, t) ==
  IF keys = {} THEN t
  ELSE LET k == CHOOSE x \in keys : TRUE
           t1 == IF TestString(full, k)
                   THEN [t EXCEPT !.hitCount = @ + 1]
                   ELSE [t EXCEPT !.missCount = @ + 1]
           t2 == IF TestString(half, k)
                   THEN [t1 EXCEPT !.halfCoount = @ + 1]
                   ELSE [t1 EXCEPT !.mhalfCount = @ + 1]
       IN ConfirmLoop(keys \ {k}, full, half, t2)

\* Confirm(): the four counters it logs
Confirm(m, full, half) ==
  ConfirmLoop(DOMAIN m, full, half,
              [hitCount |-> 0, missCount |-> 0, halfCoount |-> 0, mhalfCount |-> 0])

(***************************************************************************)
(* main                                                                    *)
(***************************************************************************)
\* A plausible slip: each artifact is saved as soon as it is encoded.
MainOrderSaveEarly ==
  <<"start", "setupTracing", "pass1", "pass2", "encBlom", "saveBloom",
    "encHalf", "saveHalf", "encMap", "saveMap", "confirm", "closer", "exited">>

\* A plausible slip: Confirm is called before the artifacts are saved.
MainOrderConfirmEarly ==
  <<"start", "setupTracing", "pass1", "pass2", "encBlom", "encHalf", "encMap",
    "confirm", "saveMap", "saveBloom", "saveHalf", "closer", "exited">>

\* The statements of main, in program order.
MainOrder ==
  <<"start", "setupTracing", "pass1", "pass2", "encBlom", "encHalf", "encMap",
    "saveMap", "saveBloom", "saveHalf", "confirm", "closer", "exited">>

Rank(p) == CHOOSE i \in 1..Len(MainOrder) : MainOrder[i] = p
Succ(p) == MainOrder[Rank(p) + 1]

\* log.Fatal*: log the message and os.Exit(1); deferred calls do not run.
Fatal(msg) == exit' = "fatal" /\ pc' = "exited" /\ fatalMsg' = msg

\* flag.Bool("e", true, ...) without flag.Parse(): the pointer holds the
\* default whatever the command line says.
FlagBool(default, arg) == default

Start ==
  /\ exit = "running" /\ pc = "start"
  /\ cfg' = [TracingEnabled |-> FlagBool(TRUE, argE)]
  /\ pc' = Succ(pc)
  /\ UNCHANGED <<argE, traceFile, tracing, exit, fatalMsg>>
  /\ UNCHANGED <<rdVars, setVars, outVars, ordVars>>

SetupTracing ==
  /\ exit = "running" /\ pc = "setupTracing"
  /\ IF ~cfg.TracingEnabled
       THEN pc' = Succ(pc) /\ UNCHANGED <<traceFile, tracing, exit, fatalMsg>>
       ELSE \E createOk, startOk \in BOOLEAN :
              IF ~createOk
                THEN Fatal("failed to create trace output file")
                     /\ UNCHANGED <<traceFile, tracing>>
              ELSE IF ~startOk
                THEN Fatal("failed to start trace")
                     /\ traceFile' = TRUE /\ UNCHANGED tracing
              ELSE /\ traceFile' = TRUE /\ tracing' = TRUE
                   /\ pc' = Succ(pc) /\ UNCHANGED <<exit, fatalMsg>>
  /\ UNCHANGED <<argE, cfg>>
  /\ UNCHANGED <<rdVars, setVars, outVars, ordVars>>

\* ReadAllStreaming(ctx, cfg, proc): with or without a trace region, it runs
\* readAllStreamingInternal.
CallReadAllStreaming ==
  /\ exit = "running" /\ pc \in {"pass1", "pass2"} /\ rpc = "idle"
  /\ reader' = "readAllStreamingInternal"
  /\ proc' = IF pc = "pass1" THEN "ProcessChunkUsingMap" ELSE "ProcessChunkUsingBloom"
  /\ rpc' = "get"
  /\ UNCHANGED <<body, scanp, decErr, dataModel, procCalls>>
  /\ UNCHANGED <<cmdVars, ctlVars, setVars, outVars, ordVars>>

\* client.Get(LARGE_JSON_FILE); json.NewDecoder(req.Body)
ReaderGet ==
  /\ exit = "running" /\ rpc = "get"
  /\ \E ok \in BOOLEAN :
       IF ok
         THEN /\ \E b \in Bodies : body' = b
              /\ scanp' = 1 /\ decErr' = FALSE /\ dataModel' = <<>>
              /\ procCalls' = <<>> /\ rpc' = "token"
              /\ UNCHANGED ctlVars
         ELSE /\ Fatal("ERROR FETCHING TEST DATA")
              /\ UNCHANGED <<body, scanp, decErr, dataModel, procCalls, rpc>>
  /\ UNCHANGED <<reader, proc>>
  /\ UNCHANGED <<cmdVars, setVars, outVars, ordVars>>

\* dec.Token(): the opening '[' of the array
ReaderToken ==
  /\ exit = "running" /\ rpc = "token"
  /\ IF body.head = "["
       THEN rpc' = "more" /\ UNCHANGED ctlVars
       ELSE Fatal("Token decoding error") /\ UNCHANGED rpc
  /\ UNCHANGED <<reader, proc, body, scanp, decErr, dataModel, procCalls>>
  /\ UNCHANGED <<cmdVars, setVars, outVars, ordVars>>

\* for dec.More() { ... }; log.Println("entries: %d", len(dataModel))
ReaderMore ==
  /\ exit = "running" /\ rpc = "more"
  /\ rpc' = IF More(body.elems, scanp) THEN "decode" ELSE "returned"
  /\ UNCHANGED <<reader, proc, body, scanp, decErr, dataModel, procCalls>>
  /\ UNCHANGED <<cmdVars, ctlVars, setVars, outVars, ordVars>>

\* proc(&m)
CallProc(m) ==
  /\ procCalls' = Append(procCalls, m)
  /\ IF proc = "ProcessChunkUsingMap"
       THEN /\ pushEventMap' = ProcessChunkUsingMap(pushEventMap, m)
            /\ UNCHANGED <<blomfil, halfblomfil>>
       ELSE LET fs == ProcessChunkUsingBloom(<<blomfil, halfblomfil>>, m)
            IN /\ blomfil' = fs[1] /\ halfblomfil' = fs[2]
               /\ UNCHANGED pushEventMap

\* The loop body: m := Model{}; dec.Decode(&m); on error log it, otherwise
\* append m to dataModel and call proc (readAllStreamingInternal) or call
\* proc and append (readAllStreamingBufferedInternal).
LoopBody ==
  /\ exit = "running" /\ rpc = "decode"
  /\ LET d == Decode(body.elems, scanp, decErr)
     IN /\ scanp' = d.scanp /\ decErr' = d.decErr
        /\ IF d.err
             THEN UNCHANGED <<dataModel, procCalls, setVars>>
             ELSE dataModel' = Append(dataModel, d.m) /\ CallProc(d.m)
  /\ rpc' = "more"
  /\ UNCHANGED <<reader, proc, body>>
  /\ UNCHANGED <<cmdVars, ctlVars, outVars, ordVars>>

ReaderDecodeStreaming == reader = "readAllStreamingInternal" /\ LoopBody

ReaderDecodeBuffered == reader = "readAllStreamingBufferedInternal" /\ LoopBody

\* ReadAllStreaming returned; runtime.ReadMemStats and memUsage print only.
\* The reader's locals (the decoder, dataModel) are gone, and with them the
\* record of the calls it made.
PassDone ==
  /\ exit = "running" /\ pc \in {"pass1", "pass2"} /\ rpc = "returned"
  /\ pc' = Succ(pc) /\ rpc' = "idle"
  /\ body' = NoBody /\ scanp' = 1 /\ decErr' = FALSE /\ dataModel' = <<>>
  /\ procCalls' = <<>>
  /\ UNCHANGED <<reader, proc, exit, fatalMsg>>
  /\ UNCHANGED <<cmdVars, setVars, outVars, ordVars>>

\* blomBytes, err := blomfil.GobEncode(); if err != nil { log.Fatalf }
EncodeBlom ==
  /\ exit = "running" /\ pc = "encBlom"
  /\ \E ok \in BOOLEAN :
       IF ok THEN blomBytes' = GobEncode(blomfil) /\ pc' = Succ(pc)
                  /\ UNCHANGED <<exit, fatalMsg>>
             ELSE Fatal("Error on gob Marshal") /\ UNCHANGED blomBytes
  /\ UNCHANGED <<halfblomBytes, mapBytes, files, tally>>
  /\ UNCHANGED <<cmdVars, rdVars, setVars, ordVars>>

\* halfblomBytes, err := halfblomfil.GobEncode(); if err != nil { log.Fatalf }
EncodeHalf ==
  /\ exit = "running" /\ pc = "encHalf"
  /\ \E ok \in BOOLEAN :
       IF ok THEN halfblomBytes' = GobEncode(halfblomfil) /\ pc' = Succ(pc)
                  /\ UNCHANGED <<exit, fatalMsg>>
             ELSE Fatal("Error on gob Marshal") /\ UNCHANGED halfblomBytes
  /\ UNCHANGED <<blomBytes, mapBytes, files, tally>>
  /\ UNCHANGED <<cmdVars, rdVars, setVars, ordVars>>

\* gob's encoding of a map: its entries in the map's iteration order, which
\* Go leaves unspecified.
GobEncodeMap(m) ==
  {s \in [1..Cardinality(DOMAIN m) -> DOMAIN m] :
     \A i, j \in DOMAIN s : i # j => s[i] # s[j]}

\* err = gobenc.Encode(pushEventMap); if err != nil { log.Fatalf }
EncodeMap ==
  /\ exit = "running" /\ pc = "encMap"
  /\ \E ok \in BOOLEAN :
       IF ok THEN /\ \E s \in GobEncodeMap(pushEventMap) : mapBytes' = s
                  /\ pc' = Succ(pc) /\ UNCHANGED <<exit, fatalMsg>>
             ELSE Fatal("Error on json Marshal") /\ UNCHANGED mapBytes
  /\ UNCHANGED <<blomBytes, halfblomBytes, files, tally>>
  /\ UNCHANGED <<cmdVars, rdVars, setVars, ordVars>>

SaveOutcomes == {"ok", "createFailed", "writeFailed"}

\* Save(filename, data) as main calls it: the returned error is dropped and
\* main goes on to its next statement.
CallSave(at, filename, data) ==
  /\ exit = "running" /\ pc = at
  /\ \E outcome \in SaveOutcomes :
       files' = [files EXCEPT ![filename] = Save(data, outcome).file]
  /\ pc' = Succ(pc)
  /\ UNCHANGED <<exit, fatalMsg, blomBytes, halfblomBytes, mapBytes, tally>>
  /\ UNCHANGED <<cmdVars, rdVars, setVars, ordVars>>

SaveMap == CallSave("saveMap", "mapBytes.gob", mapBytes)

SaveBloom == CallSave("saveBloom", "bloomBytes.gob", blomBytes)

SaveHalf == CallSave("saveHalf", "halfbloomBytes.gob", halfblomBytes)

CallConfirm ==
  /\ exit = "running" /\ pc = "confirm"
  /\ tally' = Confirm(pushEventMap, blomfil, halfblomfil)
  /\ pc' = Succ(pc)
  /\ UNCHANGED <<exit, fatalMsg, blomBytes, halfblomBytes, mapBytes, files>>
  /\ UNCHANGED <<cmdVars, rdVars, setVars, ordVars>>

\* main returns: the deferred closer() runs. The closer setupTracing gave
\* back stops the tracer and closes the trace file, or does nothing when
\* tracing was not enabled.
Closer ==
  /\ exit = "running" /\ pc = "closer"
  /\ IF ~cfg.TracingEnabled
       THEN exit' = "ok" /\ pc' = Succ(pc) /\ UNCHANGED <<tracing, fatalMsg>>
       ELSE /\ tracing' = FALSE
            /\ \E closeOk \in BOOLEAN :
                 IF closeOk
                   THEN exit' = "ok" /\ pc' = Succ(pc) /\ UNCHANGED fatalMsg
                   ELSE Fatal("failed to close trace file")
  /\ UNCHANGED <<argE, cfg, traceFile>>
  /\ UNCHANGED <<rdVars, setVars, outVars, ordVars>>

(***************************************************************************)
(* The run of the command                                                  *)
(***************************************************************************)
NoRun == [i |-> 0, map |-> EmptyMap, full |-> NewFilter(FullBits, NumHashes),
          half |-> NewFilter(HalfBits, NumHashes)]

InitProgram ==
  /\ cfg = [TracingEnabled |-> FALSE]
  /\ traceFile = FALSE /\ tracing = FALSE
  /\ exit = "running" /\ fatalMsg = None
  /\ body = NoBody /\ scanp = 1 /\ decErr = FALSE
  /\ dataModel = <<>> /\ procCalls = <<>>
  /\ pushEventMap = EmptyMap
  /\ blomfil = NewFilter(FullBits, NumHashes)
  /\ halfblomfil = NewFilter(HalfBits, NumHashes)
  /\ blomBytes = <<>> /\ halfblomBytes = <<>> /\ mapBytes = <<>>
  /\ files = [f \in FileNames |-> NoFile]
  /\ tally = NoTally

Init ==
  /\ InitProgram
  /\ argE \in {"unset", "true", "false"}
  /\ pc = "start"
  /\ reader = None /\ proc = None /\ rpc = "idle"
  /\ recsA = <<>> /\ recsB = <<>> /\ runA = NoRun /\ runB = NoRun

Next ==
  \/ Start
  \/ SetupTracing
  \/ CallReadAllStreaming
  \/ ReaderGet
  \/ ReaderToken
  \/ ReaderMore
  \/ ReaderDecodeStreaming
  \/ PassDone
  \/ EncodeBlom
  \/ EncodeHalf
  \/ EncodeMap
  \/ SaveMap
  \/ SaveBloom
  \/ SaveHalf
  \/ CallConfirm
  \/ Closer

Spec == Init /\ [][Next]_vars

(***************************************************************************)
(* One call of a streaming reader, for either reader and either callback   *)
(***************************************************************************)
ReaderInit ==
  /\ InitProgram
  /\ argE = "unset"
  /\ reader \in {"readAllStreamingInternal", "readAllStreamingBufferedInternal"}
  /\ proc \in {"ProcessChunkUsingMap", "ProcessChunkUsingBloom"}
  /\ pc = (IF proc = "ProcessChunkUsingMap" THEN "pass1" ELSE "pass2")
  /\ rpc = "get"
  /\ recsA = <<>> /\ recsB = <<>> /\ runA = NoRun /\ runB = NoRun

ReaderNext ==
  \/ ReaderGet
  \/ ReaderToken
  \/ ReaderMore
  \/ ReaderDecodeStreaming
  \/ ReaderDecodeBuffered

ReaderSpec == ReaderInit /\ [][ReaderNext]_vars

\* A running single-threaded program takes its next step.
FairReaderSpec == ReaderInit /\ [][ReaderNext]_vars /\ WF_vars(ReaderNext)

(***************************************************************************)
(* The two callbacks over two orderings of the same records                *)
(***************************************************************************)
Reorder(recs, p) == [i \in 1..Len(recs) |-> recs[p[i]]]

\* Both callbacks applied to the next record of recs.
RunStep(run, recs) ==
  LET md == recs[run.i + 1]
      fs == ProcessChunkUsingBloom(<<run.full, run.half>>, md)
  IN [i |-> run.i + 1, map |-> ProcessChunkUsingMap(run.map, md),
      full |-> fs[1], half |-> fs[2]]

OrderInit ==
  /\ InitProgram
  /\ argE = "unset" /\ pc = "start"
  /\ reader = None /\ proc = None /\ rpc = "idle"
  /\ recsA \in SeqsUpTo(Model, MaxRecs)
  /\ \E p \in Permutations(1..Len(recsA)) : recsB = Reorder(recsA, p)
  /\ runA = NoRun /\ runB = NoRun

OrderStep ==
  /\ runA.i < Len(recsA)
  /\ runA' = RunStep(runA, recsA)
  /\ runB' = RunStep(runB, recsB)
  /\ UNCHANGED <<recsA, recsB>>
  /\ UNCHANGED <<cmdVars, ctlVars, rdVars, setVars, outVars>>

OrderNext == OrderStep

OrderSpec == OrderInit /\ [][OrderNext]_vars
(***************************************************************************)
(* Properties                                                              *)
(***************************************************************************)
\* The Ids of the PushEvent records among the records passed to proc.
PushIds(calls) ==
  {calls[i].Id : i \in {j \in DOMAIN calls : calls[j].Type = "PushEvent"}}

IsOk(e) == e.kind = "ok"

\* The records of the well-formed elements of a body, in stream order.
WellFormed(elems) ==
  LET sel == SelectSeq(elems, IsOk)
  IN [i \in 1..Len(sel) |-> [Id |-> sel[i].Id, Type |-> sel[i].Type]]

BitsOf(f, ids) == UNION {Locations(f, id) : id \in ids}

\* C1: once Confirm has tallied, both filters show no miss and as many hits
\* as pushEventMap has keys.
C1_ZeroMiss ==
  tally # NoTally =>
    /\ tally.missCount = 0 /\ tally.mhalfCount = 0
    /\ tally.hitCount = Cardinality(DOMAIN pushEventMap)
    /\ tally.halfCoount = Cardinality(DOMAIN pushEventMap)

\* C2: no false negatives: in every state of the run, every Id that was
\* added to the filters tests true in both of them.
C2_NoFalseNegatives ==
  \A id \in blomfil.adds \cup halfblomfil.adds :
    TestString(blomfil, id) /\ TestString(halfblomfil, id)

\* Two Ids were added, the filters were encoded and Confirm has run.
C2_Witness ==
  /\ Cardinality(blomfil.adds) >= 2
  /\ blomBytes # <<>> /\ halfblomBytes # <<>>
  /\ tally # NoTally

InPass == rpc \in {"token", "more", "decode", "returned"}

\* C3: classifier selectivity: during a pass and when it returns, the keys
\* of pushEventMap (map pass) and the Ids added to, and the bits set in,
\* both filters (Bloom pass) are exactly those of the PushEvent records
\* among the records passed to the callback.
C3_Selectivity ==
  /\ (proc = "ProcessChunkUsingMap" /\ InPass) =>
       DOMAIN pushEventMap = PushIds(procCalls)
  /\ (proc = "ProcessChunkUsingBloom" /\ InPass) =>
       /\ blomfil.adds = PushIds(procCalls)
       /\ halfblomfil.adds = PushIds(procCalls)
       /\ blomfil.b = BitsOf(blomfil, PushIds(procCalls))
       /\ halfblomfil.b = BitsOf(halfblomfil, PushIds(procCalls))

\* The Bloom pass returned after a PushEvent record and a record of another
\* type with another Id, and the map pass before it had tracked a key.
C3_Witness ==
  /\ pc = "pass2" /\ rpc = "returned"
  /\ DOMAIN pushEventMap # {}
  /\ \E i, j \in DOMAIN procCalls :
       /\ procCalls[i].Type = "PushEvent"
       /\ procCalls[j].Type = "WatchEvent"
       /\ procCalls[j].Id \notin blomfil.adds

\* C4: a Save that could not create or write its file ends the run fatally.
C4_SaveFailureFatal ==
  (\E f \in FileNames : files[f].state \in {"createFailed", "truncated"}) =>
    exit = "fatal"

\* C5: in a streaming pass that is not ended by a fatal error, the records
\* passed to proc come to be exactly the well-formed records of the
\* stream, in stream order: failed records are skipped and the records
\* after them still delivered.
C5_SkipAndContinue ==
  <>(\/ exit = "fatal"
     \/ /\ rpc \in {"more", "decode", "returned"}
        /\ procCalls = WellFormed(body.elems))

\* C6: the -e flag decides tracing: Config.TracingEnabled is the value the
\* operator gave, and with -e=false no trace file is created and the tracer
\* is not started.
C6_FlagControlsTracing ==
  Rank(pc) > Rank("start") =>
    /\ (argE \in {"true", "false"} => cfg.TracingEnabled = (argE = "true"))
    /\ (argE = "false" => ~traceFile /\ ~tracing)

\* C7: when encoding a filter or the map fails, the run is over (fatal) with
\* no artifact touched and no tally made.
C7_EncodeErrorBeforeSave ==
  fatalMsg \in {"Error on gob Marshal", "Error on json Marshal"} =>
    /\ exit = "fatal"
    /\ \A f \in FileNames : files[f] = NoFile
    /\ tally = NoTally

\* The map's encoding failed after both filters were encoded.
C7_Witness ==
  /\ fatalMsg = "Error on json Marshal"
  /\ blomBytes # <<>> /\ halfblomBytes # <<>>
  /\ DOMAIN pushEventMap # {}

AllSaved == \A f \in FileNames : files[f].state = "written"

\* C8: the order of a run: the map changes only in the first pass, before
\* any filter bit is set; the filters change only in the second pass; the
\* artifacts are saved only after both passes, map first, then the full and
\* the half filter, and before the tally; Confirm tallies only after Save
\* was called for all three; and in a run that ends with nothing having
\* failed, the three files hold the encodings of the structures as the
\* passes left them.
C8_Step ==
  /\ pushEventMap' # pushEventMap =>
       /\ pc = "pass1" /\ blomfil.b = {} /\ halfblomfil.b = {}
       /\ (\A f \in FileNames : files[f] = NoFile) /\ tally = NoTally
  /\ <<blomfil, halfblomfil>>' # <<blomfil, halfblomfil>> =>
       /\ pc = "pass2"
       /\ (\A f \in FileNames : files[f] = NoFile) /\ tally = NoTally
  /\ files' # files =>
       /\ Rank(pc) > Rank("pass2") /\ tally = NoTally
       /\ files'["bloomBytes.gob"] # NoFile => files["mapBytes.gob"] # NoFile
       /\ files'["halfbloomBytes.gob"] # NoFile => files["bloomBytes.gob"] # NoFile
  /\ tally' # tally => \A f \in FileNames : files[f] # NoFile

C8_Ordering ==
  /\ [][C8_Step]_vars
  /\ [](exit = "ok" /\ AllSaved =>
          /\ tally = Confirm(pushEventMap, blomfil, halfblomfil)
          /\ files["bloomBytes.gob"].data = <<"gzip">> \o GobEncode(blomfil)
          /\ files["halfbloomBytes.gob"].data = <<"gzip">> \o GobEncode(halfblomfil)
          /\ files["mapBytes.gob"].data = <<"gzip">> \o mapBytes
          /\ mapBytes \in GobEncodeMap(pushEventMap))

\* A run that ended with all three artifacts written and a hit tallied.
C8_Witness ==
  /\ exit = "ok" /\ AllSaved
  /\ tally # NoTally /\ tally.hitCount >= 1
  /\ blomfil.b # {}

\* C9: order-insensitivity: when two orderings of the same records have
\* been processed, the maps and the bit arrays of both filters are equal,
\* and so are every TestString result and the tallies of Confirm.
C9_OrderInsensitive ==
  (runA.i = Len(recsA) /\ runB.i = Len(recsB)) =>
    /\ runA.map = runB.map
    /\ runA.full.b = runB.full.b
    /\ runA.half.b = runB.half.b
    /\ \A id \in Ids :
         /\ TestString(runA.full, id) = TestString(runB.full, id)
         /\ TestString(runA.half, id) = TestString(runB.half, id)
    /\ Confirm(runA.map, runA.full, runA.half)
         = Confirm(runB.map, runB.full, runB.half)

\* Two different orderings, with PushEvent records of two Ids, processed
\* to the end.
C9_Witness ==
  /\ recsA # recsB
  /\ runA.i = Len(recsA) /\ runB.i = Len(recsB)
  /\ Cardinality(DOMAIN runA.map) >= 2
  /\ recsA[1].Type = "PushEvent" /\ recsB[1].Type = "PushEvent"
  /\ recsA[1].Id # recsB[1].Id

\* C10: every streaming pass ends: the reader returns or the process
\* terminates.
C10_PassEnds == <>(rpc = "returned" \/ exit = "fatal")
====
